---- MODULE Spec2Model ----
(***************************************************************************)
(* choromap: the data-preparation pipeline (DataFramePrepper.prep_info_df, *)
(* dfprep.prep_info_df), the date sequencing (ChoroMapBuilder.get_dates)   *)
(* and the frame bookkeeping of ChoroMapBuilder.make_map.                  *)
(*                                                                         *)
(* Conventions.                                                            *)
(*  - A date label is the ISO string 'yyyy-mm-dd', held as the tuple of    *)
(*    its three zero-padded fields <<y, m, d>>: string order on ISO labels *)
(*    is the lexicographic order of the tuples.  A datetime.date is held   *)
(*    as its proleptic Gregorian ordinal (date.toordinal()).               *)
(*  - A number is an exact fraction <<n, d>> in lowest terms with d > 0;   *)
(*    NaN is <<0, 0>>.  Binary floating-point rounding is not modelled.    *)
(*  - A DataFrame is [columns, rows]: the set of column labels and the set *)
(*    of rows, each row a function from the column labels to values.       *)
(*  - A pivoted matrix is [index, columns, values]: the sorted locations,  *)
(*    the sorted date labels and, per location, the sequence of numbers.   *)
(***************************************************************************)
EXTENDS Integers, Sequences, FiniteSets, TLC

VARIABLES
    info_df,        \* DataFramePrepper.info_df: the caller's table
    ready_info_df,  \* DataFramePrepper.ready_info_df (has = FALSE: not yet set)
    call,           \* the last call: operation and arguments as passed
    outcome,        \* how the last call ended: exception raised and value returned
    merged_df,      \* ChoroMapBuilder.merged_df (its column index)
    png_dir,        \* charts/maps/<save_name>: exists flag and file names
    video,          \* charts/exports/<save_name>.mp4: the frames it was built from
    pc,             \* position inside make_map
    list_of_dates,  \* make_static_maps: local list_of_dates
    file_num        \* make_static_maps: local file_num (index of the next frame)

vars == <<info_df, ready_info_df, call, outcome, merged_df, png_dir, video, pc,
          list_of_dates, file_num>>

prepVars == <<info_df, ready_info_df>>
mapVars == <<merged_df, png_dir, video, pc, list_of_dates, file_num>>

-----------------------------------------------------------------------------
(* Bounds of the model                                                     *)

MaxRows == 3        \* rows of an input table of the free-form family
NumDays == 4        \* calendar days the free-form tables draw their dates from
SeriesLen == 7      \* length of the daily series of the one-location family
SchemaRows == 2     \* rows of an input table of the schema family
MaxCount == 3       \* largest integer count passed to get_dates
StaleFrames == 5    \* frames an earlier run left in the frame directory

-----------------------------------------------------------------------------
(* Exact fractions                                                         *)

RECURSIVE Gcd(_, _)
Gcd(a, b) == IF b = 0 THEN a ELSE Gcd(b, a % b)

Abs(x) == IF x < 0 THEN -x ELSE x

NaN == <<0, 0>>
IsNaN(v) == v[2] = 0

Norm(n, d) ==
    LET g == Gcd(Abs(n), Abs(d))
    IN  IF d < 0 THEN <<(-n) \div g, (-d) \div g>> ELSE <<n \div g, d \div g>>

Num(i) == <<i, 1>>
RAdd(a, b) == Norm(a[1] * b[2] + b[1] * a[2], a[2] * b[2])
RSub(a, b) == Norm(a[1] * b[2] - b[1] * a[2], a[2] * b[2])
RMulFrac(a, p, q) == Norm(a[1] * p, a[2] * q)    \* a * p / q, q > 0

RECURSIVE RSum(_)
RSum(s) == IF s = <<>> THEN Num(0) ELSE RAdd(Head(s), RSum(Tail(s)))

-----------------------------------------------------------------------------
(* Calendar: datetime.date as used by get_dates                            *)

IsLeap(y) == (y % 4 = 0) /\ ((y % 100 # 0) \/ (y % 400 = 0))

DaysInMonth(y, m) ==
    IF m = 2 THEN (IF IsLeap(y) THEN 29 ELSE 28)
    ELSE IF m \in {4, 6, 9, 11} THEN 30 ELSE 31

DaysBeforeYear(y) ==
    (y - 1) * 365 + ((y - 1) \div 4) - ((y - 1) \div 100) + ((y - 1) \div 400)

RECURSIVE DaysBeforeMonth(_, _)
DaysBeforeMonth(y, m) ==
    IF m = 1 THEN 0 ELSE DaysBeforeMonth(y, m - 1) + DaysInMonth(y, m - 1)

\* date.fromisoformat accepts the label: the fields name a real calendar day
IsIsoDate(s) ==
    /\ s[1] \in 1..9999
    /\ s[2] \in 1..12
    /\ s[3] \in 1..DaysInMonth(s[1], s[2])

\* date.fromisoformat(s), as the ordinal of the date
FromIsoFormat(s) == DaysBeforeYear(s[1]) + DaysBeforeMonth(s[1], s[2]) + s[3]

Years == 2019..2021

\* date.__str__: the ISO label of the date with ordinal n
DateStr(n) ==
    LET y == CHOOSE yy \in Years :
                 DaysBeforeYear(yy) < n /\ n <= DaysBeforeYear(yy + 1)
        m == CHOOSE mm \in 1..12 :
                 /\ DaysBeforeYear(y) + DaysBeforeMonth(y, mm) < n
                 /\ n <= DaysBeforeYear(y) + DaysBeforeMonth(y, mm) + DaysInMonth(y, mm)
    IN  <<y, m, n - DaysBeforeYear(y) - DaysBeforeMonth(y, m)>>

\* string order on two ISO labels
StrLess(a, b) ==
    \/ a[1] < b[1]
    \/ a[1] = b[1] /\ a[2] < b[2]
    \/ a[1] = b[1] /\ a[2] = b[2] /\ a[3] < b[3]

FirstDay == <<2020, 2, 27>>
Days(n) == { DateStr(FromIsoFormat(FirstDay) + i) : i \in 0..(n - 1) }

-----------------------------------------------------------------------------
(* pandas: the DataFrame operations the pipeline calls                     *)

Range(f) == { f[x] : x \in DOMAIN f }

RECURSIVE SortDates(_)
\* the date labels of S in ascending string order (Index.sort_values)
SortDates(S) ==
    IF S = {} THEN <<>>
    ELSE LET lo == CHOOSE a \in S : \A b \in S : a = b \/ StrLess(a, b)
         IN  <<lo>> \o SortDates(S \ {lo})

\* mapper.get(c, c) of DataFrame.rename(columns=mapper)
Renamed(mapper, c) == IF c \in DOMAIN mapper THEN mapper[c] ELSE c

\* df.rename(columns=mapper): labels absent from the frame are ignored
Rename(df, mapper) ==
    LET src(n) == CHOOSE c \in df.columns : Renamed(mapper, c) = n
        cols == { Renamed(mapper, c) : c \in df.columns }
    IN  [columns |-> cols,
         rows |-> [i \in DOMAIN df.rows |-> [n \in cols |-> df.rows[i][src(n)]]]]

\* df.drop(columns=[c])
DropColumn(df, c) ==
    [columns |-> df.columns \ {c},
     rows |-> [i \in DOMAIN df.rows |-> [n \in df.columns \ {c} |-> df.rows[i][n]]]]

\* df[cols]: projection on a list of labels, all of them present
Project(df, cols) ==
    [columns |-> cols,
     rows |-> [i \in DOMAIN df.rows |-> [n \in cols |-> df.rows[i][n]]]]

\* df.groupby([col]).get_group(key): the rows whose col equals key, as a new frame
GetGroup(df, col, key) ==
    [columns |-> df.columns,
     rows |-> SelectSeq(df.rows, LAMBDA r : r[col] = key)]

\* the aggregated cell of pivot_table (aggfunc mean, NaN skipped)
PivotCell(df, category, l, d) ==
    LET hit == SelectSeq(df.rows, LAMBDA r : r["location"] = l /\ r["date"] = d
                                             /\ ~IsNaN(r[category]))
        vals == [i \in DOMAIN hit |-> hit[i][category]]
    IN  IF hit = <<>> THEN NaN ELSE RMulFrac(RSum(vals), 1, Len(hit))

\* df.pivot_table(index='location', columns='date', values=category, dropna=False)
PivotTable(df, category) ==
    LET idx == { r["location"] : r \in Range(df.rows) }
        cols == SortDates({ r["date"] : r \in Range(df.rows) })
    IN  [index |-> idx,
         columns |-> cols,
         values |-> [l \in idx |->
                       [j \in DOMAIN cols |-> PivotCell(df, category, l, cols[j])]]]

\* (mutant) limit_direction='both': leading NaN take the first known value
InterpolateRowBoth(s) ==
    [j \in DOMAIN s |->
        IF ~IsNaN(s[j]) THEN s[j]
        ELSE LET before == { i \in DOMAIN s : i < j /\ ~IsNaN(s[i]) }
                 after == { k \in DOMAIN s : k > j /\ ~IsNaN(s[k]) }
             IN  IF before = {} /\ after = {} THEN NaN
                 ELSE IF before = {}
                 THEN s[CHOOSE k \in after : \A k2 \in after : k <= k2]
                 ELSE LET p == CHOOSE i \in before : \A i2 \in before : i2 <= i
                      IN  IF after = {} THEN s[p]
                          ELSE LET q == CHOOSE k \in after : \A k2 \in after : k <= k2
                               IN  RAdd(s[p], RMulFrac(RSub(s[q], s[p]), j - p, q - p))]

\* one row under interpolate(method='linear', limit_direction='forward'):
\* positions are equally spaced; leading NaN stay, trailing NaN take the last value
InterpolateRow(s) ==
    [j \in DOMAIN s |->
        IF ~IsNaN(s[j]) THEN s[j]
        ELSE LET before == { i \in DOMAIN s : i < j /\ ~IsNaN(s[i]) }
                 after == { k \in DOMAIN s : k > j /\ ~IsNaN(s[k]) }
             IN  IF before = {} THEN NaN
                 ELSE LET p == CHOOSE i \in before : \A i2 \in before : i2 <= i
                      IN  IF after = {} THEN s[p]
                          ELSE LET q == CHOOSE k \in after : \A k2 \in after : k <= k2
                               IN  RAdd(s[p], RMulFrac(RSub(s[q], s[p]), j - p, q - p))]

\* m.interpolate(method='linear', limit_direction='forward', axis=1)
Interpolate(m) == [m EXCEPT !.values = [l \in m.index |-> InterpolateRow(m.values[l])]]

Window == 7

\* (mutant) rolling(7, min_periods=1).mean(): the mean of the values present
RollingMeanRowMinPeriods1(s) ==
    [j \in DOMAIN s |->
        LET win == SelectSeq(SubSeq(s, IF j > Window THEN j - Window + 1 ELSE 1, j),
                             LAMBDA v : ~IsNaN(v))
        IN  IF win = <<>> THEN NaN ELSE RMulFrac(RSum(win), 1, Len(win))]

\* one row under rolling(7).mean(): min_periods defaults to the window
RollingMeanRow(s) ==
    [j \in DOMAIN s |->
        IF j >= Window /\ \A i \in (j - Window + 1)..j : ~IsNaN(s[i])
        THEN RMulFrac(RSum(SubSeq(s, j - Window + 1, j)), 1, Window)
        ELSE NaN]

\* m.rolling(7, axis=1).mean()
RollingMean(m) == [m EXCEPT !.values = [l \in m.index |-> RollingMeanRow(m.values[l])]]

\* m.fillna(0)
FillNa(m) ==
    [m EXCEPT !.values = [l \in m.index |->
        [j \in DOMAIN m.values[l] |->
            IF IsNaN(m.values[l][j]) THEN Num(0) ELSE m.values[l][j]]]]

NoMatrix == [index |-> {}, columns |-> <<>>, values |-> <<>>]

-----------------------------------------------------------------------------
(* DataFramePrepper                                                        *)

\* (mutant) the rows are filtered by a boolean mask, which raises nothing when
\* no row has the category
long2wideMask(df, category, col_categories, col_values) ==
    IF col_categories \notin df.columns
    THEN [exc |-> "KeyError", df |-> df]
    ELSE [exc |-> "none",
          df |-> Rename(DropColumn(GetGroup(df, col_categories, category),
                                   col_categories),
                        [c \in {col_values} |-> category])]

\* long2wide: [exc, df]
long2wide(df, category, col_categories, col_values) ==
    IF col_categories \notin df.columns
    THEN [exc |-> "KeyError", df |-> df]
    ELSE IF \A i \in DOMAIN df.rows : df.rows[i][col_categories] # category
    THEN [exc |-> "KeyError", df |-> df]
    ELSE [exc |-> "none",
          df |-> Rename(DropColumn(GetGroup(df, col_categories, category),
                                   col_categories),
                        [c \in {col_values} |-> category])]

\* the frame after temp_df.rename(columns={col_dates: 'date', col_location: 'location'})
RenameKeys(df, a) ==
    Rename(df, [c \in {a.col_dates, a.col_location} |->
                   IF c = a.col_dates THEN "date" ELSE "location"])

\* pivot, interpolate, (roll), fillna of the renamed frame
Reshape(df, a) ==
    LET interpolated == Interpolate(PivotTable(Project(df, {"location", "date", a.category}),
                                               a.category))
    IN  FillNa(IF a.roll_avg THEN RollingMean(interpolated) ELSE interpolated)

\* prep_info_df on the table df with the arguments a:
\* [exc, ret, df] = exception raised, matrix returned, the caller's table afterwards
prep_info_df(df, a) ==
    LET l2w == long2wide(df, a.category, a.col_categories, a.col_values)
        temp_df == RenameKeys(IF a.long THEN l2w.df ELSE df, a)
        after == IF a.long THEN df ELSE temp_df
    IN  IF a.long /\ l2w.exc # "none"
        THEN [exc |-> l2w.exc, ret |-> NoMatrix, df |-> df]
        ELSE IF ~({"location", "date", a.category} \subseteq temp_df.columns)
        THEN [exc |-> "KeyError", ret |-> NoMatrix, df |-> after]
        ELSE [exc |-> "none", ret |-> Reshape(temp_df, a), df |-> after]

-----------------------------------------------------------------------------
(* Input tables                                                            *)

Locs == {"A", "B"}
Categories == {"cases", "deaths"}

\* an observation is <<location, date label, category, value>>; its row under
\* the column labels cols
RowOf(cols, t) ==
    [c \in cols |->
        CASE c \in {"Fecha", "date"} -> t[2]
          [] c \in {"Territorio", "location"} -> t[1]
          [] c = "Indicador" -> t[3]
          [] OTHER -> t[4]]

RECURSIVE SetToSeq(_)
SetToSeq(S) ==
    IF S = {} THEN <<>>
    ELSE LET x == CHOOSE y \in S : TRUE IN <<x>> \o SetToSeq(S \ {x})

Frame(cols, S) ==
    LET obs == SetToSeq(S)
    IN  [columns |-> cols, rows |-> [i \in DOMAIN obs |-> RowOf(cols, obs[i])]]

RECURSIVE UpTo(_, _)
\* the subsets of S with at most k elements
UpTo(S, k) ==
    IF k = 0 THEN {{}}
    ELSE LET less == UpTo(S, k - 1)
         IN  less \cup { T \cup {x} : T \in less, x \in S }

WideCols == {"Fecha", "Territorio", "cases"}

\* free-form wide tables: up to MaxRows rows over two locations and NumDays days;
\* A reports i * i on the i-th day, B reports 1 or a missing value
FreeObs ==
    LET days == SortDates(Days(NumDays))
    IN  { <<"A", days[i], "cases", Num(i * i)>> : i \in 1..NumDays }
        \cup ({"B"} \X Days(NumDays) \X {"cases"} \X {NaN, Num(1)})

FreeTables == { Frame(WideCols, S) : S \in UpTo(FreeObs, MaxRows) \ {{}} }

\* one location with a row on each of SeriesLen consecutive days: the value
\* i * i on the i-th day where it is observed, a missing value where it is not
SeriesTables ==
    LET days == SortDates(Days(SeriesLen))
    IN  { Frame(WideCols, { <<"A", days[i], "cases", IF f[i] THEN Num(i * i) ELSE NaN>> :
                              i \in 1..SeriesLen }) :
            f \in [1..SeriesLen -> BOOLEAN] }

\* the column sets a caller's table may have: each role absent, under the name
\* the caller passes, or under another name
Schemas ==
    { d \cup l \cup c \cup v :
        d \in {{}, {"Fecha"}, {"date"}},
        l \in {{}, {"Territorio"}, {"location"}},
        c \in {{}, {"Indicador"}},
        v \in {{}, {"Valor"}, {"cases"}} }

SchemaObs ==
    LET days == SortDates(Days(NumDays))
    IN  {<<"A", days[1], "cases", Num(4)>>, <<"A", days[1], "deaths", Num(1)>>,
         <<"A", days[3], "cases", NaN>>}

SchemaTables ==
    { Frame(cols, S) : cols \in Schemas, S \in UpTo(SchemaObs, SchemaRows) \ {{}} }

InputTables == FreeTables \cup SeriesTables \cup SchemaTables

\* the arguments a caller passes to prep_info_df
PrepArgs ==
    [category : Categories, col_dates : {"Fecha"}, col_location : {"Territorio"},
     col_categories : {"Indicador"}, col_values : {"Valor"},
     long : BOOLEAN, roll_avg : BOOLEAN]

NoCall == [op |-> "none"]
NoOutcome == [exc |-> "none", ret |-> NoMatrix]
Unset == [has |-> FALSE, df |-> NoMatrix]

-----------------------------------------------------------------------------
(* The data-preparation pipeline as a state machine                        *)

MapIdle ==
    /\ merged_df = [columns |-> <<>>]
    /\ png_dir = [exists |-> FALSE, files |-> {}]
    /\ video = [made |-> FALSE, frames |-> <<>>]
    /\ pc = "idle"
    /\ list_of_dates = <<>>
    /\ file_num = 0

Init ==
    /\ info_df \in InputTables
    /\ ready_info_df = Unset
    /\ call = NoCall
    /\ outcome = NoOutcome
    /\ MapIdle

\* DataFramePrepper(info_df, geom_df).prep_info_df(**a); dfprep.prep_info_df is
\* the same code as a module-level function that only returns the matrix
PrepInfoDf ==
    \E a \in PrepArgs :
        LET r == prep_info_df(info_df, a)
        IN  /\ call' = [op |-> "prep_info_df", args |-> a,
                        info_df |-> info_df]
            /\ info_df' = r.df
            /\ ready_info_df' = IF r.exc = "none" THEN [has |-> TRUE, df |-> r.ret]
                                ELSE ready_info_df
            /\ outcome' = [exc |-> r.exc, ret |-> r.ret]
            /\ UNCHANGED mapVars

Next == PrepInfoDf

Spec == Init /\ [][Next]_vars

-----------------------------------------------------------------------------
(* What a prep_info_df call read and returned                              *)

PrepCalled == call.op = "prep_info_df"
PrepOk == PrepCalled /\ outcome.exc = "none"

\* the table as passed, under the labels the pipeline reads it by, and its
\* observations <<location, date label, value>> of the requested category
SourceFrame ==
    LET a == call.args
    IN  RenameKeys(IF a.long
                   THEN long2wide(call.info_df, a.category, a.col_categories,
                                  a.col_values).df
                   ELSE call.info_df, a)

Observations ==
    { <<r["location"], r["date"], r[call.args.category]>> : r \in Range(SourceFrame.rows) }

ObsLocs == { o[1] : o \in Observations }
ObsDates == { o[2] : o \in Observations }

\* the known (non-missing) values of location l on date d
KnownAt(l, d) == { o[3] : o \in { x \in Observations : x[1] = l /\ x[2] = d /\ ~IsNaN(x[3]) } }
KnownDates(l) == { d \in ObsDates : KnownAt(l, d) # {} }
Single(l, d) == Cardinality(KnownAt(l, d)) = 1
TheValue(l, d) == CHOOSE v \in KnownAt(l, d) : TRUE

Ord(d) == FromIsoFormat(d)

\* the returned matrix
Ret == outcome.ret
RetDates == Range(Ret.columns)
Pos(d) == CHOOSE j \in DOMAIN Ret.columns : Ret.columns[j] = d
Cell(l, d) == Ret.values[l][Pos(d)]

-----------------------------------------------------------------------------
(* Claims about prep_info_df                                               *)

\* C1 (as claimed): after a successful prep_info_df, every location of the source
\* has, on every calendar day from the minimum to the maximum observed date, a
\* column of the matrix holding a defined number.
C1_DenseCalendarRange ==
    PrepOk =>
        \A l \in ObsLocs : \A d \in ObsDates : \A e \in ObsDates :
            \A n \in Ord(d)..Ord(e) :
                /\ l \in Ret.index
                /\ DateStr(n) \in RetDates
                /\ ~IsNaN(Cell(l, DateStr(n)))

\* C2 (as claimed): without smoothing, between two consecutive known observations
\* (D1, v1), (D2, v2) of a location every date D of the matrix has the value
\* v1 + (v2 - v1) * (D - D1) / (D2 - D1), the distances counted in calendar days.
C2_LinearInCalendarDays ==
    (PrepOk /\ ~call.args.roll_avg) =>
        \A l \in ObsLocs : \A d1 \in KnownDates(l) : \A d2 \in KnownDates(l) :
            (/\ StrLess(d1, d2)
             /\ Single(l, d1) /\ Single(l, d2)
             /\ ~\E k \in KnownDates(l) : StrLess(d1, k) /\ StrLess(k, d2))
            => \A d \in RetDates :
                   (StrLess(d1, d) /\ StrLess(d, d2))
                   => Cell(l, d) = RAdd(TheValue(l, d1),
                                        RMulFrac(RSub(TheValue(l, d2), TheValue(l, d1)),
                                                 Ord(d) - Ord(d1), Ord(d2) - Ord(d1)))

\* C5 (as claimed): a call of prep_info_df, succeeding or failing, leaves the
\* caller's table with the column names and rows it had before the call.
C5_InputUntouched ==
    PrepCalled => info_df = call.info_df

\* C6: without smoothing, for every location, a date before the location's first
\* known value holds 0 (a location with no known value is all zeros), a date with
\* a known value keeps it, and a date after the last known value carries the last
\* known value.
C6_ZeroBeforeKeepCarryAfter ==
    (PrepOk /\ ~call.args.roll_avg) =>
        \A l \in ObsLocs : \A d \in RetDates :
            /\ (~\E k \in KnownDates(l) : k = d \/ StrLess(k, d)) => Cell(l, d) = Num(0)
            /\ Single(l, d) => Cell(l, d) = TheValue(l, d)
            /\ \A k \in KnownDates(l) :
                   (/\ StrLess(k, d)
                    /\ Single(l, k)
                    /\ \A k2 \in KnownDates(l) : k2 = k \/ StrLess(k2, k))
                   => Cell(l, d) = TheValue(l, k)

\* a location without any known value, and a location with a zero before its
\* only known value and that value carried after it
C6_Witness ==
    /\ PrepOk /\ ~call.args.roll_avg
    /\ Len(Ret.columns) = 3
    /\ \E l \in ObsLocs : KnownDates(l) = {}
    /\ \E l \in ObsLocs :
           /\ KnownDates(l) = {Ret.columns[2]}
           /\ Ret.values[l] = <<Num(0), Num(4), Num(4)>>

\* the interpolated, not yet zero-filled rows of the matrix
Unfilled ==
    Interpolate(PivotTable(Project(SourceFrame, {"location", "date", call.args.category}),
                           call.args.category)).values

\* C9: with smoothing, the value at the j-th date (j counted from 1 here) is the
\* mean of the interpolated, not yet zero-filled values at the dates j-6 .. j when
\* all seven are defined and 0 otherwise, so the first 6 dates are 0; without
\* smoothing the interpolated values are returned as they are (0 where undefined).
C9_TrailingMeanOfSeven ==
    PrepOk =>
        \A l \in Ret.index : \A j \in DOMAIN Ret.columns :
            LET u == Unfilled[l]
                v == Ret.values[l][j]
            IN  IF call.args.roll_avg
                THEN /\ (j >= 7 /\ \A i \in (j - 6)..j : ~IsNaN(u[i]))
                            => RMulFrac(v, 7, 1) = RSum(SubSeq(u, j - 6, j))
                     /\ ~(j >= 7 /\ \A i \in (j - 6)..j : ~IsNaN(u[i])) => v = Num(0)
                     /\ j <= 6 => v = Num(0)
                ELSE v = IF IsNaN(u[j]) THEN Num(0) ELSE u[j]

\* a smoothed value that is not 0, over a window holding an interpolated value
C9_Witness ==
    /\ PrepOk /\ call.args.roll_avg
    /\ \E l \in Ret.index : \E j \in DOMAIN Ret.columns :
           /\ j >= 7
           /\ Ret.values[l][j] # Num(0)
           /\ \E i \in (j - 6)..j : KnownAt(l, Ret.columns[i]) = {}

\* the table as passed has the column the caller names for the dates (locations,
\* values), or one already carrying the label the pipeline renames it to
HasDates == {call.args.col_dates, "date"} \cap call.info_df.columns # {}
HasLocations == {call.args.col_location, "location"} \cap call.info_df.columns # {}
HasValues == {call.args.col_values, call.args.category} \cap call.info_df.columns # {}
HasCategory ==
    /\ call.args.col_categories \in call.info_df.columns
    /\ \E r \in Range(call.info_df.rows) : r[call.args.col_categories] = call.args.category

\* C8 (as claimed): prep_info_df fails whenever the requested category is absent
\* or a required column named by the caller (col_dates, col_location and, in long
\* form, col_categories, col_values) is missing from the table.
C8_FailsOnAnyMissingColumn ==
    LET a == call.args
        cols == call.info_df.columns
    IN  (/\ PrepCalled
         /\ \/ a.col_dates \notin cols
            \/ a.col_location \notin cols
            \/ a.long /\ (a.col_categories \notin cols \/ a.col_values \notin cols)
            \/ a.long /\ ~HasCategory
            \/ ~a.long /\ a.category \notin cols)
        => (outcome.exc # "none" /\ outcome.ret = NoMatrix)

\* C8 (amended): prep_info_df fails with KeyError and returns no matrix whenever
\* the table has no date column (neither col_dates nor 'date'), no location
\* column (neither col_location nor 'location'), in wide form no column named by
\* the category, in long form no col_categories column, no row of the requested
\* category, or no value column (neither col_values nor one named by the category).
C8_FailsWhenUnreadable ==
    LET a == call.args
        unreadable ==
            \/ ~HasDates
            \/ ~HasLocations
            \/ ~a.long /\ a.category \notin call.info_df.columns
            \/ a.long /\ (~HasCategory \/ ~HasValues)
    IN  (PrepCalled /\ unreadable) => (outcome.exc = "KeyError" /\ outcome.ret = NoMatrix)

\* a long-form call on a table with the category column that fails because no
\* row has the requested category
C8_Witness ==
    /\ PrepCalled /\ call.args.long
    /\ call.args.col_categories \in call.info_df.columns
    /\ ~HasCategory
    /\ outcome.exc = "KeyError"

-----------------------------------------------------------------------------
(* ChoroMapBuilder                                                         *)

\* count as passed: the string 'all', another string, or an integer
CountAll == [type |-> "str", str |-> "all", int |-> 0]
CountInt(n) == [type |-> "int", str |-> "", int |-> n]
Counts ==
    {CountAll, [type |-> "str", str |-> "daily", int |-> 0]}
    \cup { CountInt(n) : n \in (-1)..MaxCount }

\* begin_date as passed: None, or a label 'yyyy-mm-dd'
NoDate == [none |-> TRUE, s |-> <<0, 0, 0>>]
Date(s) == [none |-> FALSE, s |-> s]
BeginDates ==
    {NoDate, Date(<<2020, 2, 30>>)}
    \cup { Date(DateStr(FromIsoFormat(FirstDay) + i)) : i \in (-1)..NumDays }

\* merged_df.columns.min(): the least label; the 'geometry' label of the merged
\* frame sorts after every label that starts with a digit
ColumnsMin(columns) ==
    CHOOSE a \in Range(columns) : \A b \in Range(columns) : a = b \/ StrLess(a, b)

\* (mutant) end_date = most_recent_date, without the added day
get_datesNoLastDay(mdf, count, begin_date) ==
    LET begin_str == IF begin_date.none THEN ColumnsMin(mdf.columns) ELSE begin_date.s
        begin == FromIsoFormat(begin_str)
        most_recent_date == FromIsoFormat(mdf.columns[Len(mdf.columns)])
        valid == \/ count.type = "str" /\ count.str = "all"
                 \/ count.type = "int" /\ count.int > 1
        end_date == IF count.type = "str" THEN most_recent_date ELSE begin + count.int
    IN  IF ~IsIsoDate(begin_str) \/ ~valid
        THEN [exc |-> "ValueError", ret |-> <<>>]
        ELSE [exc |-> "none",
              ret |-> [i \in 1..(end_date - begin) |-> DateStr(begin + (i - 1))]]

\* (mutant) the test of an integer count is count > 0
get_datesCountPositive(mdf, count, begin_date) ==
    LET begin_str == IF begin_date.none THEN ColumnsMin(mdf.columns) ELSE begin_date.s
        begin == FromIsoFormat(begin_str)
        most_recent_date == FromIsoFormat(mdf.columns[Len(mdf.columns)])
        valid == \/ count.type = "str" /\ count.str = "all"
                 \/ count.type = "int" /\ count.int > 0
        end_date == IF count.type = "str" THEN most_recent_date + 1 ELSE begin + count.int
    IN  IF ~IsIsoDate(begin_str) \/ ~valid
        THEN [exc |-> "ValueError", ret |-> <<>>]
        ELSE [exc |-> "none",
              ret |-> [i \in 1..(end_date - begin) |-> DateStr(begin + (i - 1))]]

\* get_dates: [exc, ret]
get_dates(mdf, count, begin_date) ==
    LET begin_str == IF begin_date.none THEN ColumnsMin(mdf.columns) ELSE begin_date.s
        begin == FromIsoFormat(begin_str)
        most_recent_date == FromIsoFormat(mdf.columns[Len(mdf.columns)])
        valid == \/ count.type = "str" /\ count.str = "all"
                 \/ count.type = "int" /\ count.int > 1
        end_date == IF count.type = "str" THEN most_recent_date + 1 ELSE begin + count.int
    IN  IF ~IsIsoDate(begin_str) \/ ~valid
        THEN [exc |-> "ValueError", ret |-> <<>>]
        ELSE [exc |-> "none",
              ret |-> [i \in 1..(end_date - begin) |-> DateStr(begin + (i - 1))]]

RECURSIVE Digits(_)
\* str(n) for n >= 0, as the sequence of its decimal digits
Digits(n) == IF n < 10 THEN <<n>> ELSE Digits(n \div 10) \o <<n % 10>>

RECURSIVE ZFill(_, _)
\* str.zfill(width)
ZFill(digits, width) ==
    IF Len(digits) >= width THEN digits ELSE ZFill(<<0>> \o digits, width)

RECURSIVE IntOf(_)
\* int(str)
IntOf(digits) ==
    IF digits = <<>> THEN 0
    ELSE 10 * IntOf(SubSeq(digits, 1, Len(digits) - 1)) + digits[Len(digits)]

\* the frame file <name>.png of file_num: file_num = str(file_num).zfill(4)
FrameName(n) == ZFill(Digits(n), 4)

\* (mutant) the directory is left as it is
delete_static_mapsSkipped(dir) == dir

\* delete_static_maps: rm ./<png_output_path>/*
delete_static_maps(dir) == [dir EXCEPT !.files = {}]

\* ffmpeg -i <png_output_path>/%04d.png: the frames 0000, 0001, ... up to the
\* first missing number, as the dates they show
RECURSIVE FramesFrom(_, _)
FramesFrom(files, n) ==
    IF \E f \in files : f[1] = FrameName(n)
    THEN <<(CHOOSE f \in files : f[1] = FrameName(n))[2]>> \o FramesFrom(files, n + 1)
    ELSE <<>>

-----------------------------------------------------------------------------
(* The map builder as a state machine                                      *)

\* the date a frame of an earlier run shows
StaleDate == <<2019, 12, 31>>

\* the merged frames: date columns as the pipeline leaves them, sorted, with or
\* without calendar gaps
MergedFrames ==
    { [columns |-> SortDates(S)] : S \in (SUBSET Days(NumDays)) \ {{}} }

\* the frame directory before a run: absent, empty, or holding an earlier run
FrameDirs ==
    { [exists |-> FALSE, files |-> {}],
      [exists |-> TRUE, files |-> {}],
      [exists |-> TRUE,
       files |-> { <<FrameName(k), StaleDate>> : k \in 0..(StaleFrames - 1) }] }

InitMap ==
    /\ info_df = [columns |-> {}, rows |-> <<>>]
    /\ ready_info_df = Unset
    /\ call = NoCall
    /\ outcome = [exc |-> "none", ret |-> <<>>]
    /\ merged_df \in MergedFrames
    /\ png_dir \in FrameDirs
    /\ video = [made |-> FALSE, frames |-> <<>>]
    /\ pc = "idle"
    /\ list_of_dates = <<>>
    /\ file_num = 0

\* ChoroMapBuilder(merged_df).get_dates(merged_df, count, begin_date)
GetDates ==
    /\ pc = "idle"
    /\ \E count \in Counts, begin_date \in BeginDates :
           LET r == get_dates(merged_df, count, begin_date)
           IN  /\ call' = [op |-> "get_dates", count |-> count, begin_date |-> begin_date]
               /\ outcome' = r
    /\ UNCHANGED <<prepVars, mapVars>>

\* make_map is entered: png_output_path is set
MakeMap ==
    /\ pc = "idle"
    /\ \E count \in Counts, begin_date \in BeginDates :
           call' = [op |-> "make_map", count |-> count, begin_date |-> begin_date]
    /\ outcome' = [exc |-> "none", ret |-> <<>>]
    /\ pc' = "create_png_directory"
    /\ UNCHANGED <<prepVars, merged_df, png_dir, video, list_of_dates, file_num>>

\* create_png_directory
CreatePngDirectory ==
    /\ pc = "create_png_directory"
    /\ png_dir' = [png_dir EXCEPT !.exists = TRUE]
    /\ pc' = "delete_static_maps"
    /\ UNCHANGED <<prepVars, call, outcome, merged_df, video, list_of_dates, file_num>>

\* delete_static_maps
DeleteStaticMaps ==
    /\ pc = "delete_static_maps"
    /\ png_dir' = delete_static_maps(png_dir)
    /\ pc' = "make_static_maps"
    /\ UNCHANGED <<prepVars, call, outcome, merged_df, video, list_of_dates, file_num>>

\* make_static_maps up to the loop: build_figure, get_dates, file_num = 0
BeginStaticMaps ==
    /\ pc = "make_static_maps"
    /\ LET r == get_dates(merged_df, call.count, call.begin_date)
       IN  IF r.exc # "none"
           THEN /\ outcome' = [exc |-> r.exc, ret |-> <<>>]
                /\ pc' = "raised"
                /\ UNCHANGED <<list_of_dates, file_num>>
           ELSE /\ list_of_dates' = r.ret
                /\ file_num' = 0
                /\ pc' = "for_date"
                /\ UNCHANGED outcome
    /\ UNCHANGED <<prepVars, call, merged_df, png_dir, video>>

\* one turn of the loop: plot the column of the date, save the figure as
\* <file_num>.png, count on
SaveFrame ==
    /\ pc = "for_date"
    /\ file_num < Len(list_of_dates)
    /\ LET date == list_of_dates[file_num + 1]
           name == FrameName(file_num)
       IN  IF date \notin Range(merged_df.columns)
           THEN /\ outcome' = [exc |-> "KeyError", ret |-> <<>>]
                /\ pc' = "raised"
                /\ UNCHANGED <<png_dir, file_num>>
           ELSE /\ png_dir' = [png_dir EXCEPT
                                 !.files = { f \in @ : f[1] # name } \cup {<<name, date>>}]
                /\ file_num' = IntOf(name) + 1
                /\ UNCHANGED <<outcome, pc>>
    /\ UNCHANGED <<prepVars, call, merged_df, video, list_of_dates>>

\* the loop is over: plt.close(), create_exports_directory
CloseFigure ==
    /\ pc = "for_date"
    /\ file_num = Len(list_of_dates)
    /\ pc' = "make_video"
    /\ UNCHANGED <<prepVars, call, outcome, merged_df, png_dir, video, list_of_dates,
                   file_num>>

\* make_video: ffmpeg writes the video when it finds a first frame
MakeVideo ==
    /\ pc = "make_video"
    /\ LET frames == FramesFrom(png_dir.files, 0)
       IN  video' = IF frames = <<>> THEN video ELSE [made |-> TRUE, frames |-> frames]
    /\ pc' = "display_video"
    /\ UNCHANGED <<prepVars, call, outcome, merged_df, png_dir, list_of_dates, file_num>>

\* display_video: make_map returns
DisplayVideo ==
    /\ pc = "display_video"
    /\ pc' = "returned"
    /\ UNCHANGED <<prepVars, call, outcome, merged_df, png_dir, video, list_of_dates,
                   file_num>>

NextMap ==
    \/ GetDates
    \/ MakeMap
    \/ CreatePngDirectory
    \/ DeleteStaticMaps
    \/ BeginStaticMaps
    \/ SaveFrame
    \/ CloseFigure
    \/ MakeVideo
    \/ DisplayVideo

SpecMap == InitMap /\ [][NextMap]_vars

-----------------------------------------------------------------------------
(* Claims about get_dates                                                  *)

DatesCalled == call.op = "get_dates"

ValidCount ==
    \/ call.count.type = "str" /\ call.count.str = "all"
    \/ call.count.type = "int" /\ call.count.int > 1

\* begin_date is left to its default or is the label of a calendar day
WellFormedBegin == call.begin_date.none \/ IsIsoDate(call.begin_date.s)

MinDate == CHOOSE a \in Range(merged_df.columns) :
               \A b \in Range(merged_df.columns) : ~StrLess(b, a)
MaxDate == CHOOSE a \in Range(merged_df.columns) :
               \A b \in Range(merged_df.columns) : ~StrLess(a, b)

BeginOrd == IF call.begin_date.none THEN Ord(MinDate) ELSE Ord(call.begin_date.s)

\* C3: with a valid count get_dates returns the strictly ascending run of
\* consecutive calendar days from begin_date (default: the minimum date); for
\* 'all' the run ends at the maximum date (it is empty when begin_date is later),
\* with (max - min).days + 1 entries under the default begin_date; for an integer
\* count > 1 it has count entries, also past the maximum date.
C3_ConsecutiveRun ==
    (DatesCalled /\ ValidCount /\ WellFormedBegin) =>
        LET ret == outcome.ret
        IN  /\ outcome.exc = "none"
            /\ \A i \in DOMAIN ret : Ord(ret[i]) = BeginOrd + (i - 1)
            /\ \A i \in DOMAIN ret : \A j \in DOMAIN ret : i < j => StrLess(ret[i], ret[j])
            /\ call.count.type = "str" =>
                   /\ Len(ret) = IF Ord(MaxDate) >= BeginOrd
                                 THEN Ord(MaxDate) - BeginOrd + 1 ELSE 0
                   /\ call.begin_date.none => Len(ret) = Ord(MaxDate) - Ord(MinDate) + 1
                   /\ Len(ret) > 0 => ret[Len(ret)] = MaxDate
            /\ call.count.type = "int" => Len(ret) = call.count.int

\* an integer count from an explicit begin_date whose run crosses the end of
\* February and ends after the maximum date
C3_Witness ==
    /\ DatesCalled /\ outcome.exc = "none"
    /\ call.count.type = "int" /\ ~call.begin_date.none
    /\ Len(outcome.ret) >= 3
    /\ outcome.ret[1][2] = 2 /\ outcome.ret[Len(outcome.ret)][2] = 3
    /\ StrLess(MaxDate, outcome.ret[Len(outcome.ret)])

\* C4 (as claimed): get_dates with an explicit begin_date earlier than the
\* minimum date or later than the maximum date of the matrix fails with an error.
C4_BeginOutsideRangeFails ==
    (/\ DatesCalled
     /\ ~call.begin_date.none /\ IsIsoDate(call.begin_date.s)
     /\ (StrLess(call.begin_date.s, MinDate) \/ StrLess(MaxDate, call.begin_date.s)))
    => outcome.exc # "none"

\* C7: get_dates fails, returning no list, for every count that is neither 'all'
\* nor an integer greater than 1 (1, 0 and negative integers included).
C7_InvalidCountFails ==
    (DatesCalled /\ ~ValidCount) => (outcome.exc = "ValueError" /\ outcome.ret = <<>>)

\* count = 1 with the default begin_date fails
C7_Witness ==
    /\ DatesCalled
    /\ call.count = CountInt(1) /\ call.begin_date.none
    /\ outcome.exc = "ValueError"

-----------------------------------------------------------------------------
(* Claims about make_map                                                   *)

\* the 4-digit zero-padded decimal numeral of k
FourDigits(k) == <<(k \div 1000) % 10, (k \div 100) % 10, (k \div 10) % 10, k % 10>>

\* string order on two file names of digits
NameLess(a, b) ==
    \E i \in DOMAIN a :
        /\ i \in DOMAIN b
        /\ a[i] < b[i]
        /\ \A j \in 1..(i - 1) : a[j] = b[j]

Rendered == pc \in {"make_video", "display_video", "returned"}

\* C10: in a run of make_map the frame directory is emptied before the first
\* frame is written (from the loop on it holds frames of this run only), the
\* video is assembled only after the last frame is written, and when the
\* rendering has ended the directory holds exactly the files 0000.png,
\* 0001.png, ..., the file of the 4-digit index k showing the k-th date (from 0)
\* of the get_dates sequence, so that file-name order is date order.
C10_FramesFollowDates ==
    /\ (pc = "for_date" \/ Rendered) =>
           \A f \in png_dir.files :
               \E k \in 0..(file_num - 1) : f = <<FourDigits(k), list_of_dates[k + 1]>>
    /\ video.made =>
           /\ pc \in {"display_video", "returned"}
           /\ file_num = Len(list_of_dates)
           /\ video.frames = list_of_dates
    /\ Rendered =>
           /\ png_dir.files = { <<FourDigits(k), list_of_dates[k + 1]>> :
                                  k \in 0..(Len(list_of_dates) - 1) }
           /\ \A f \in png_dir.files : \A g \in png_dir.files :
                  NameLess(f[1], g[1]) <=> StrLess(f[2], g[2])

\* a run that returned after writing a frame per date and assembling the video
C10_Witness ==
    /\ pc = "returned"
    /\ video.made
    /\ Len(list_of_dates) >= 3
    /\ Cardinality(png_dir.files) = Len(list_of_dates)

====
